---- MODULE Spec2Model ----
(***************************************************************************)
(* Model of powerpoint_auto_generator.py: the image -> slide pipeline      *)
(* (create_powerpoint_from_images) and the pure functions it is built on   *)
(* (extract_subject_id_from_filename, load_subject_metadata, the picture   *)
(* layout arithmetic).                                                     *)
(*                                                                         *)
(* Representation.                                                         *)
(*  - A Python str is a sequence of one-character strings, so that         *)
(*    replace, startswith, basename and the regular expression act on      *)
(*    characters as the code does.                                         *)
(*  - An Optional value is a sequence of length <= 1: None is << >>,       *)
(*    a present value x is <<x>>.                                          *)
(*  - A float that holds an age is an integer number of 1/60 year (a       *)
(*    months cell: 1/60 month), so that 8.4, 10.2, 15.5 and m/12 are       *)
(*    exact; NaN is the Optional None of a cell.                           *)
(*  - Lengths are integer EMU as in python-pptx (914400 EMU per inch).     *)
(***************************************************************************)
EXTENDS Integers, Sequences, FiniteSets, TLC

VARIABLES
    os_name,         \* os.name of the running platform: "posix" or "nt"
    files,           \* the image files that exist on disk (paths written with "/")
    metadata_path,   \* Optional: the metadata_path argument
    metadata_file,   \* Optional: the table stored at metadata_path, None if no such file
    image_paths,     \* the elements of the image_paths argument that the loop of
                     \* line 163 has yet to take
    pc,              \* position in create_powerpoint_from_images (or in a function call)
    idx,             \* the i of the loop of line 255: the next slide's number
    age_mapping,     \* dict subject id -> age
    image_data,      \* the `present` list
    missing_images,  \* the `missing` list
    slides,          \* prs.slides
    log,             \* the kinds of diagnostics printed so far
    save_calls,      \* number of calls of prs.save
    result,          \* Optional: the value returned by create_powerpoint_from_images
    call,            \* a call of one of the pure functions: [fn, arg]
    ret              \* Optional: the value that call returned

vars == <<os_name, files, metadata_path, metadata_file, image_paths, pc, idx,
          age_mapping, image_data, missing_images, slides, log, save_calls,
          result, call, ret>>

pipeline_vars == <<os_name, files, metadata_path, metadata_file, image_paths, idx,
                   age_mapping, image_data, missing_images, slides, log,
                   save_calls, result>>

----------------------------------------------------------------------------
(* Optional values *)

None == << >>

Some(x) == <<x>>

----------------------------------------------------------------------------
(* Characters and strings *)

UpperCase == {"A","B","C","D","E","F","G","H","I","J","K","L","M",
              "N","O","P","Q","R","S","T","U","V","W","X","Y","Z"}

Digit == {"0","1","2","3","4","5","6","7","8","9"}

\* code-point order of the characters a subject id can hold (digits < upper case)
CodePoints == <<"0","1","2","3","4","5","6","7","8","9",
                "A","B","C","D","E","F","G","H","I","J","K","L","M",
                "N","O","P","Q","R","S","T","U","V","W","X","Y","Z">>

Ord(c) == CHOOSE k \in 1..Len(CodePoints) : CodePoints[k] = c

\* Python's s < t on str: lexicographic by code point, a proper prefix is smaller
RECURSIVE StrLess(_, _)
StrLess(s, t) ==
    IF t = << >> THEN FALSE
    ELSE IF s = << >> THEN TRUE
    ELSE IF Ord(Head(s)) # Ord(Head(t)) THEN Ord(Head(s)) < Ord(Head(t))
    ELSE StrLess(Tail(s), Tail(t))

\* s.startswith(p)
StartsWith(s, p) == Len(s) >= Len(p) /\ SubSeq(s, 1, Len(p)) = p

\* s[i:].startswith(lit), i counted from 1
HasAt(s, i, lit) ==
    i + Len(lit) - 1 <= Len(s) /\ \A k \in 1..Len(lit) : s[i + k - 1] = lit[k]

\* s.replace(old, new) for a one-character old
Replace(s, old, new) == [k \in 1..Len(s) |-> IF s[k] = old THEN new ELSE s[k]]

----------------------------------------------------------------------------
(* extract_subject_id_from_filename *)

\* the literals of r'stride_change_([A-Z]+\d+)_fixed_grid\.png'
PatternPrefix == <<"s","t","r","i","d","e","_","c","h","a","n","g","e","_">>

PatternSuffix == <<"_","f","i","x","e","d","_","g","r","i","d",".","p","n","g">>

\* the index of the last character of the longest run of `class` characters that
\* starts at s[i]; i - 1 when s[i] is not in the class
RECURSIVE RunEnd(_, _, _)
RunEnd(s, i, class) ==
    IF i <= Len(s) /\ s[i] \in class THEN RunEnd(s, i + 1, class) ELSE i - 1

\* MatchAt with the "." of the pattern left unescaped: it matches any character
MatchAtUnescapedDot(s, i) ==
    LET a  == i + Len(PatternPrefix)
        le == RunEnd(s, a, UpperCase)
        de == RunEnd(s, le + 1, Digit)
        n  == Len(PatternSuffix)
    IN  IF /\ HasAt(s, i, PatternPrefix)
           /\ le >= a
           /\ de >= le + 1
           /\ de + n <= Len(s)
           /\ \A k \in 1..n : PatternSuffix[k] = "." \/ s[de + k] = PatternSuffix[k]
        THEN Some(SubSeq(s, a, de))
        ELSE None

\* the pattern matched at position i: Some(group 1) or None.  [A-Z]+ and \d+ are
\* greedy; the character after each run must be outside its class (a digit after
\* the letters, "_" after the digits), so giving characters back never helps and
\* the longest runs decide the match.
MatchAt(s, i) ==
    LET a  == i + Len(PatternPrefix)
        le == RunEnd(s, a, UpperCase)
        de == RunEnd(s, le + 1, Digit)
    IN  IF /\ HasAt(s, i, PatternPrefix)
           /\ le >= a
           /\ de >= le + 1
           /\ HasAt(s, de + 1, PatternSuffix)
        THEN Some(SubSeq(s, a, de))
        ELSE None

\* re.search: the match at the leftmost position that has one
RECURSIVE SearchFrom(_, _)
SearchFrom(s, i) ==
    IF i > Len(s) THEN None
    ELSE IF MatchAt(s, i) # None THEN MatchAt(s, i)
    ELSE SearchFrom(s, i + 1)

re_search(s) == SearchFrom(s, 1)

extract_subject_id_from_filename(filename) ==
    LET match == re_search(filename)
    IN  IF match # None THEN Some(match[1]) ELSE None

----------------------------------------------------------------------------
(* load_subject_metadata *)

\* A metadata table as pd.read_csv returns it:
\*   columns        the column names, among "ID", "age", "age_months"
\*   id_int         the ID column is int64 (IDs 1, 2, ...) and not object ("MUH1")
\*   float_written  the numbers are written with a decimal point ("144.0")
\*   rows           the rows; a cell is an Optional number (None: NaN / empty),
\*                  the ID cell the text of the ID (of an int64 ID: its digits)
\* A cell of a column the table does not have is never read.

IsWhole(x) == x % 60 = 0

\* the dtype pandas gives a numeric column: int64 only when every cell is a whole
\* number written without a decimal point
Dtype(df, col) ==
    IF \/ df.float_written
       \/ \E k \in 1..Len(df.rows) :
             df.rows[k][col] = None \/ ~IsWhole(df.rows[k][col][1])
    THEN "float64" ELSE "int64"

\* str(row['ID']).  iterrows() yields each row as one Series of a single dtype: a
\* row of an int64 ID and a float64 column is all float64, and the ID 1 reads
\* back as 1.0, whose str is "1.0"; the str of an int is its digits
StrOfID(id, id_int, upcast) ==
    IF id_int /\ upcast THEN id \o <<".", "0">> ELSE id

\* AgeBranch with the two columns tried in the other order: years first
AgeBranchYearsFirst(columns) ==
    IF "age" \in columns THEN "age"
    ELSE IF "age_months" \in columns THEN "age_months"
    ELSE "none"

\* lines 48-54: which column age_years is computed from
AgeBranch(columns) ==
    IF "age_months" \in columns THEN "age_months"
    ELSE IF "age" \in columns THEN "age"
    ELSE "none"

\* AgeYears that writes 0 for a cell that is not a number
AgeYearsZeroForNaN(row, branch) ==
    IF branch = "age_months"
    THEN IF row.age_months = None THEN Some(0) ELSE Some(row.age_months[1] \div 12)
    ELSE IF row.age = None THEN Some(0) ELSE row.age

\* lines 49 and 51: the age_years cell of a row (NaN / 12 is NaN)
AgeYears(row, branch) ==
    IF branch = "age_months"
    THEN IF row.age_months = None THEN None ELSE Some(row.age_months[1] \div 12)
    ELSE row.age

\* lines 57-62: the loop over the rows; a later row of the same ID overwrites
RECURSIVE AgeMappingOf(_, _, _, _, _)
AgeMappingOf(rows, k, branch, id_int, upcast) ==
    IF k = 0 THEN << >>
    ELSE LET before     == AgeMappingOf(rows, k - 1, branch, id_int, upcast)
             subject_id == StrOfID(rows[k].ID, id_int, upcast)
             age        == AgeYears(rows[k], branch)
         IN  IF age # None
             THEN [s \in DOMAIN before \cup {subject_id} |->
                     IF s = subject_id THEN age[1] ELSE before[s]]
             ELSE before

\* load_subject_metadata(metadata_path), given what is stored at the path (None:
\* no such file).  Returns the mapping and the kinds of diagnostics printed.
load_subject_metadata(file) ==
    IF file = None
    THEN [age_mapping |-> << >>, log |-> {"metadata_not_found"}]      \* line 67
    ELSE LET metadata_df == file[1]
             branch      == AgeBranch(metadata_df.columns)
             upcast      == /\ metadata_df.id_int
                            /\ \/ branch = "age_months"
                               \/ Dtype(metadata_df, "age") = "float64"
         IN  IF branch = "none"
             THEN [age_mapping |-> << >>, log |-> {"no_age_column"}]  \* line 53
             ELSE IF "ID" \notin metadata_df.columns /\ metadata_df.rows # << >>
             THEN [age_mapping |-> << >>, log |-> {"metadata_error"}] \* KeyError, line 70
             ELSE [age_mapping |-> AgeMappingOf(metadata_df.rows, Len(metadata_df.rows),
                                                branch, metadata_df.id_int, upcast),
                   log |-> {"loaded_age_data"}]

----------------------------------------------------------------------------
(* Paths and the file system *)

\* os.sep
Sep(os) == IF os = "nt" THEN "\\" ELSE "/"

\* the index of the last separator of p (0 when it has none); ntpath takes both
\* "\\" and "/" as separators, posixpath only "/"
RECURSIVE LastSep(_, _, _)
LastSep(p, k, os) ==
    IF k = 0 THEN 0
    ELSE IF p[k] = "/" \/ (os = "nt" /\ p[k] = "\\") THEN k
    ELSE LastSep(p, k - 1, os)

\* os.path.basename(p): what follows the last separator (ntpath first splits off
\* a drive "X:")
Basename(p, os) ==
    LET q == IF os = "nt" /\ Len(p) >= 2 /\ p[2] = ":" THEN SubSeq(p, 3, Len(p)) ELSE p
    IN  SubSeq(q, LastSep(q, Len(q), os) + 1, Len(q))

\* os.path.exists(p) for the image files: `fs` holds the existing files written
\* with "/"; on nt "\\" and "/" name the same file, on posix "\\" is an ordinary
\* character of a name
Exists(p, fs, os) == (IF os = "nt" THEN Replace(p, "\\", "/") ELSE p) \in fs

\* line 165: img_path.replace('\\', os.sep).replace('/', os.sep)
NormalizeSeparators(p, os) == Replace(Replace(p, "\\", Sep(os)), "/", Sep(os))

DrivePrefix == <<"C", ":">>

PlotsDir == <<"f","i","g","u","r","e","s","/","i","n","d","i","v","i","d","u","a","l","_","p","l","o","t","s","/","s","t","r","i","d","e","_","c","h","a","n","g","e","_","a","f","t","e","r","_","s","u","c","c","e","s","s","_","v","s","_","f","a","i","l","u","r","e","/">>

AnalysisDir == <<"a","n","a","l","y","s","i","s","/">>

OutputDir == <<"m","o","t","o","r","_","l","e","a","r","n","i","n","g","_","o","u","t","p","u","t","/">>

\* lines 172-177: possible_paths, in the order they are tried
PossiblePaths(filename) ==
    << filename,
       PlotsDir \o filename,
       AnalysisDir \o PlotsDir \o filename,
       OutputDir \o PlotsDir \o filename >>

\* lines 179-184: the first possible path that exists, or None
RECURSIVE FirstExisting(_, _, _, _)
FirstExisting(candidates, k, fs, os) ==
    IF k > Len(candidates) THEN None
    ELSE IF Exists(candidates[k], fs, os) THEN Some(candidates[k])
    ELSE FirstExisting(candidates, k + 1, fs, os)

\* line 168: the fallback search is entered
UsesFallback(normalized, os) == StartsWith(normalized, DrivePrefix) /\ os # "nt"

\* lines 165-188: the path the rest of the loop body works with, or None when the
\* loop body ends at the `continue` of line 188
ResolvePath(raw, fs, os) ==
    LET normalized == NormalizeSeparators(raw, os)
    IN  IF UsesFallback(normalized, os)
        THEN FirstExisting(PossiblePaths(Basename(normalized, os)), 1, fs, os)
        ELSE Some(normalized)

\* lines 203-208 and 210-215: the record appended to image_data or missing_images
SlideRecord(img_path, subject_id, age, filename) ==
    [path |-> img_path, subject_id |-> subject_id, age |-> age, filename |-> filename]

\* line 199: age_mapping.get(subject_id, None)
AgeOf(mapping, subject_id) ==
    IF subject_id \in DOMAIN mapping THEN Some(mapping[subject_id]) ELSE None

\* ProcessImagePath that records a path without a subject id in missing_images
\* instead of skipping it
ProcessImagePathKeepsUnmatched(raw, mapping, fs, os) ==
    LET resolved == ResolvePath(raw, fs, os)
    IN  IF resolved = None
        THEN [to |-> "neither", log |-> {"could_not_find_image"}]
        ELSE LET img_path   == resolved[1]
                 filename   == Basename(img_path, os)
                 subject_id == extract_subject_id_from_filename(filename)
             IN  IF subject_id = None
                 THEN [to     |-> "missing_images",
                       record |-> SlideRecord(img_path, << >>, None, filename),
                       log    |-> {"could_not_extract_id"}]
                 ELSE [to     |-> IF Exists(img_path, fs, os) THEN "image_data"
                                                              ELSE "missing_images",
                       record |-> SlideRecord(img_path, subject_id[1],
                                              AgeOf(mapping, subject_id[1]), filename),
                       log    |-> {}]

\* lines 163-215, one pass of the loop body for one input path: what is appended
\* to which list, and what is printed
ProcessImagePath(raw, mapping, fs, os) ==
    LET resolved == ResolvePath(raw, fs, os)
    IN  IF resolved = None
        THEN [to |-> "neither", log |-> {"could_not_find_image"}]           \* 186-188
        ELSE LET img_path   == resolved[1]
                 filename   == Basename(img_path, os)
                 subject_id == extract_subject_id_from_filename(filename)
             IN  IF subject_id = None
                 THEN [to |-> "neither", log |-> {"could_not_extract_id"}]  \* 194-196
                 ELSE [to     |-> IF Exists(img_path, fs, os) THEN "image_data"
                                                              ELSE "missing_images",
                       record |-> SlideRecord(img_path, subject_id[1],
                                              AgeOf(mapping, subject_id[1]), filename),
                       log    |-> {}]

----------------------------------------------------------------------------
(* The sort of line 229 *)

\* SortKey without the subject id: ties are left in their input order
SortKeyWithoutId(x) ==
    << x.age = None, IF x.age # None THEN x.age[1] ELSE 999 * 60, << >> >>

\* the key of line 229: (age is None, age or 999, subject_id); 999 years in 1/60 year
SortKey(x) ==
    << x.age = None, IF x.age # None THEN x.age[1] ELSE 999 * 60, x.subject_id >>

\* Python's k1 < k2 on these tuples (False < True)
KeyLess(k1, k2) ==
    IF k1[1] # k2[1] THEN k2[1]
    ELSE IF k1[2] # k2[2] THEN k1[2] < k2[2]
    ELSE StrLess(k1[3], k2[3])

\* x put into the sorted list s behind every element that is not greater than it
RECURSIVE InsertSorted(_, _)
InsertSorted(s, x) ==
    IF s = << >> THEN <<x>>
    ELSE IF KeyLess(SortKey(x), SortKey(Head(s))) THEN <<x>> \o s
    ELSE <<Head(s)>> \o InsertSorted(Tail(s), x)

\* list.sort(key=...): the stable sort by key
RECURSIVE SortByKey(_, _)
SortByKey(s, k) ==
    IF k = 0 THEN << >> ELSE InsertSorted(SortByKey(s, k - 1), s[k])

SortedImageData(data) == SortByKey(data, Len(data))

----------------------------------------------------------------------------
(* The slides *)

\* pptx.util.Inches(x) == int(x * 914400), x given in thousandths of an inch
\* (914400 / 1000 = 9144 / 10)
Inches(thousandths) == (thousandths * 9144) \div 10

slide_width == Inches(13333)      \* line 151

slide_height == Inches(7500)      \* line 152

available_height == slide_height - Inches(1200) - Inches(300)   \* line 290

available_width == slide_width - Inches(1000)                   \* line 291

\* python-pptx's add_picture with a height and no width: the width that keeps the
\* aspect ratio of an image of native_width x native_height pixels,
\* int(round(native_width * height / native_height)), round() taking a half to even
ScaledWidth(native_width, native_height, height) ==
    LET q == (native_width * height) \div native_height
        r == (native_width * height) % native_height
    IN  IF 2 * r > native_height \/ (2 * r = native_height /\ q % 2 = 1) THEN q + 1 ELSE q

\* int(x / 2) for an integer x: Python's int() truncates toward zero
HalfTruncated(x) == IF x >= 0 THEN x \div 2 ELSE -((-x) \div 2)

\* PlacePicture that centres in the slide band without adding the left margin
PlacePictureNoMargin(actual_width) ==
    [ left   |-> IF actual_width < available_width
                 THEN HalfTruncated(available_width - actual_width)
                 ELSE Inches(500),
      top    |-> Inches(1200),
      width  |-> actual_width,
      height |-> available_height ]

\* lines 294-311: the placement of a picture whose width add_picture reports as
\* actual_width
PlacePicture(actual_width) ==
    [ left   |-> IF actual_width < available_width
                 THEN Inches(500) + HalfTruncated(available_width - actual_width)
                 ELSE Inches(500),
      top    |-> Inches(1200),
      width  |-> actual_width,
      height |-> available_height ]

\* "{age:.1f}": the age rounded to tenths of a year
OneDecimal(age) == (age + 3) \div 6

\* lines 268-271: the header line of slide i of n
TitleText(img_info, i, n) ==
    [ subject_id |-> img_info.subject_id,
      age        |-> IF img_info.age # None THEN Some(OneDecimal(img_info.age[1])) ELSE None,
      slide      |-> i,
      of         |-> n ]

\* ImageSlide that leaves the slide of a picture that could not be placed empty
ImageSlideWithoutPlaceholder(img_info, i, n, width) ==
    [ kind        |-> "image",
      path        |-> img_info.path,
      title       |-> TitleText(img_info, i, n),
      picture     |-> IF width # None THEN Some(PlacePicture(width[1])) ELSE None,
      placeholder |-> None ]

\* lines 255-323: slide i, with the picture add_picture placed, or, when it
\* raised (width = None), with the text box of lines 319-323
ImageSlide(img_info, i, n, width) ==
    [ kind        |-> "image",
      path        |-> img_info.path,
      title       |-> TitleText(img_info, i, n),
      picture     |-> IF width # None THEN Some(PlacePicture(width[1])) ELSE None,
      placeholder |-> IF width # None THEN None ELSE Some(img_info.filename) ]

\* min and max of a non-empty set of numbers
MinOf(S) == CHOOSE x \in S : \A y \in S : x <= y

MaxOf(S) == CHOOSE x \in S : \A y \in S : y <= x

\* lines 243-246 (and 333-337): the age range of the subtitle, None when no age
\* mapping was loaded or no record has an age
AgeRange(mapping, data) ==
    LET ages_with_data == {data[k].age[1] : k \in {j \in 1..Len(data) : data[j].age # None}}
    IN  IF DOMAIN mapping # {} /\ ages_with_data # {}
        THEN Some(<<OneDecimal(MinOf(ages_with_data)), OneDecimal(MaxOf(ages_with_data))>>)
        ELSE None

\* lines 232-248: the title slide
TitleSlide(mapping, data) ==
    [ kind         |-> "title",
      participants |-> Len(data),
      age_range    |-> AgeRange(mapping, data) ]

----------------------------------------------------------------------------
(* The inputs of a run *)

MaxPaths == 3

\* the file name the upstream tooling gives the figure of a subject
FigureName(subject_id) == PatternPrefix \o subject_id \o PatternSuffix

MUH2 == <<"M","U","H","2">>

MUH9 == <<"M","U","H","9">>

MUH10 == <<"M","U","H","1","0">>

WindowsDir == <<"C",":","\\","d","a","t","a","\\">>

RandomPng == <<"r","a","n","d","o","m",".","p","n","g">>

\* the image paths a caller may pass
RawPaths ==
    { WindowsDir \o FigureName(MUH2),      \* authored on Windows
      FigureName(MUH2),
      FigureName(MUH9),
      FigureName(MUH10),
      RandomPng }                          \* not a figure of the convention

\* the image files that may exist on disk
AllFiles ==
    { FigureName(MUH2),
      PlotsDir \o FigureName(MUH2),
      FigureName(MUH9),
      FigureName(MUH10) }

\* a metadata row
Row(id, age, age_months) == [ID |-> id, age |-> age, age_months |-> age_months]

\* the metadata tables a run may find: ages 10.2 and 8.4 with MUH9 unknown, and
\* three subjects of one age, given in months
MetadataTables ==
    { [columns |-> {"ID", "age"}, id_int |-> FALSE, float_written |-> TRUE,
       rows |-> << Row(MUH2, Some(612), None), Row(MUH10, Some(504), None) >>],
      [columns |-> {"ID", "age_months"}, id_int |-> FALSE, float_written |-> FALSE,
       rows |-> << Row(MUH2, None, Some(120 * 60)), Row(MUH9, None, Some(120 * 60)),
                   Row(MUH10, None, Some(120 * 60)) >>] }

\* metadata_path and what is stored there: no path given, a path of no file, a
\* path of a table
MetadataInputs ==
    { <<None, None>>, <<Some("muh_metadata.csv"), None>> }
    \cup { <<Some("muh_metadata.csv"), Some(t)>> : t \in MetadataTables }

\* the native size (pixels) of the picture stored in a file: the figure of MUH2 is
\* 3 : 1, every other picture 1.2 : 1
NativeSize(path) ==
    IF extract_subject_id_from_filename(path) = Some(MUH2) THEN <<300, 100>> ELSE <<120, 100>>

SeqsUpTo(S, n) == UNION { [1..k -> S] : k \in 0..n }

output_filename == "stride_change_presentation.pptx"

NoCall == [fn |-> "none", arg |-> << >>]

----------------------------------------------------------------------------
(* create_powerpoint_from_images *)

Init ==
    /\ os_name \in {"posix", "nt"}
    /\ files \in SUBSET AllFiles
    /\ \E m \in MetadataInputs : metadata_path = m[1] /\ metadata_file = m[2]
    /\ image_paths \in SeqsUpTo(RawPaths, MaxPaths)
    /\ pc = "start"
    /\ idx = 1
    /\ age_mapping = << >>
    /\ image_data = << >>
    /\ missing_images = << >>
    /\ slides = << >>
    /\ log = {}
    /\ save_calls = 0
    /\ result = None
    /\ call = NoCall
    /\ ret = None

\* lines 155-157
LoadMetadata ==
    /\ pc = "start"
    /\ IF metadata_path # None /\ metadata_file # None
       THEN LET loaded == load_subject_metadata(metadata_file)
            IN  age_mapping' = loaded.age_mapping /\ log' = log \cup loaded.log
       ELSE age_mapping' = << >> /\ log' = log
    /\ pc' = "catalog"
    /\ UNCHANGED <<os_name, files, metadata_path, metadata_file, image_paths, idx,
                   image_data, missing_images, slides, save_calls, result, call, ret>>

\* lines 163-215: one pass of the loop over image_paths
CatalogImagePath ==
    /\ pc = "catalog"
    /\ image_paths # << >>
    /\ \E out \in {ProcessImagePath(Head(image_paths), age_mapping, files, os_name)} :
           /\ image_data' = IF out.to = "image_data"
                            THEN Append(image_data, out.record) ELSE image_data
           /\ missing_images' = IF out.to = "missing_images"
                                THEN Append(missing_images, out.record) ELSE missing_images
           /\ log' = log \cup out.log
    /\ image_paths' = Tail(image_paths)
    /\ UNCHANGED <<os_name, files, metadata_path, metadata_file, pc, idx,
                   age_mapping, slides, save_calls, result, call, ret>>

\* lines 217-229: the end of the loop, the report, the empty catalog, the sort
SortCatalog ==
    /\ pc = "catalog"
    /\ image_paths = << >>
    /\ LET report == {"found_valid_images"}
                     \cup (IF missing_images # << >> THEN {"images_not_on_disk"} ELSE {})
       IN  IF image_data = << >>
           THEN /\ log' = log \cup report \cup {"no_valid_images"}
                /\ result' = Some("")
                /\ pc' = "done"
                /\ image_data' = image_data
           ELSE /\ log' = log \cup report
                /\ result' = result
                /\ pc' = "title"
                /\ image_data' = SortedImageData(image_data)
    /\ UNCHANGED <<os_name, files, metadata_path, metadata_file, image_paths, idx,
                   age_mapping, missing_images, slides, save_calls, call, ret>>

\* AddTitleSlide that adds no slide
AddTitleSlideSkipped ==
    /\ pc = "title"
    /\ pc' = "slides"
    /\ idx' = 1
    /\ UNCHANGED <<os_name, files, metadata_path, metadata_file, image_paths,
                   age_mapping, image_data, missing_images, slides, log, save_calls,
                   result, call, ret>>

\* lines 231-253
AddTitleSlide ==
    /\ pc = "title"
    /\ slides' = Append(slides, TitleSlide(age_mapping, image_data))
    /\ pc' = "slides"
    /\ idx' = 1
    /\ UNCHANGED <<os_name, files, metadata_path, metadata_file, image_paths,
                   age_mapping, image_data, missing_images, log, save_calls,
                   result, call, ret>>

\* lines 255-323: one pass of the loop over image_data; add_picture places the
\* picture at the width its native size gives, or raises
AddImageSlide ==
    /\ pc = "slides"
    /\ idx <= Len(image_data)
    /\ \/ LET size == NativeSize(image_data[idx].path)
          IN  /\ slides' = Append(slides,
                     ImageSlide(image_data[idx], idx, Len(image_data),
                                Some(ScaledWidth(size[1], size[2], available_height))))
              /\ log' = log
       \/ /\ slides' = Append(slides,
                    ImageSlide(image_data[idx], idx, Len(image_data), None))
          /\ log' = log \cup {"error_adding_image"}
    /\ idx' = idx + 1
    /\ UNCHANGED <<os_name, files, metadata_path, metadata_file, image_paths, pc,
                   age_mapping, image_data, missing_images, save_calls, result,
                   call, ret>>

\* SavePresentation that returns the output filename also when prs.save raises
SavePresentationIgnoresError ==
    /\ pc = "slides"
    /\ idx > Len(image_data)
    /\ save_calls' = save_calls + 1
    /\ \/ /\ result' = Some(output_filename)
          /\ log' = log \cup {"saved"}
       \/ /\ result' = Some(output_filename)
          /\ log' = log \cup {"error_saving"}
    /\ pc' = "done"
    /\ UNCHANGED <<os_name, files, metadata_path, metadata_file, image_paths, idx,
                   age_mapping, image_data, missing_images, slides, call, ret>>

\* lines 325-346: prs.save writes the file, or raises
SavePresentation ==
    /\ pc = "slides"
    /\ idx > Len(image_data)
    /\ save_calls' = save_calls + 1
    /\ \/ /\ result' = Some(output_filename)
          /\ log' = log \cup {"saved"}
       \/ /\ result' = Some("")
          /\ log' = log \cup {"error_saving"}
    /\ pc' = "done"
    /\ UNCHANGED <<os_name, files, metadata_path, metadata_file, image_paths, idx,
                   age_mapping, image_data, missing_images, slides, call, ret>>

Next ==
    \/ LoadMetadata
    \/ CatalogImagePath
    \/ SortCatalog
    \/ AddTitleSlide
    \/ AddImageSlide
    \/ SavePresentation

Spec == Init /\ [][Next]_vars

----------------------------------------------------------------------------
(* create_powerpoint_from_images on one figure stored at several locations *)

\* where the figure of MUH2 may be stored: the current directory, the first
\* conventional subdirectory, and what the path authored on Windows names after
\* line 165 (C:\data\... on nt; on posix a file in the directories "C:" and
\* "data" under the current directory)
LocationFiles ==
    { FigureName(MUH2),
      PlotsDir \o FigureName(MUH2),
      Replace(WindowsDir, "\\", "/") \o FigureName(MUH2) }

\* the paths a caller may pass for it
LocationPaths ==
    { WindowsDir \o FigureName(MUH2),
      FigureName(MUH2),
      PlotsDir \o FigureName(MUH2) }

InitLocations ==
    /\ os_name \in {"posix", "nt"}
    /\ files \in SUBSET LocationFiles
    /\ \E m \in MetadataInputs : metadata_path = m[1] /\ metadata_file = m[2]
    /\ image_paths \in SeqsUpTo(LocationPaths, MaxPaths)
    /\ pc = "start"
    /\ idx = 1
    /\ age_mapping = << >>
    /\ image_data = << >>
    /\ missing_images = << >>
    /\ slides = << >>
    /\ log = {}
    /\ save_calls = 0
    /\ result = None
    /\ call = NoCall
    /\ ret = None

SpecLocations == InitLocations /\ [][Next]_vars

----------------------------------------------------------------------------
(* The pure functions, called on their own *)

\* the state of the pipeline while only a function is being called
NoRun ==
    /\ os_name = "posix"
    /\ files = {}
    /\ metadata_path = None
    /\ metadata_file = None
    /\ image_paths = << >>
    /\ idx = 1
    /\ age_mapping = << >>
    /\ image_data = << >>
    /\ missing_images = << >>
    /\ slides = << >>
    /\ log = {}
    /\ save_calls = 0
    /\ result = None

MaxPieces == 4

RECURSIVE Concat(_)
Concat(pieces) == IF pieces = << >> THEN << >> ELSE Head(pieces) \o Concat(Tail(pieces))

\* what the file names are put together from: the two literals of the pattern,
\* the suffix with another character for its ".", tokens and parts of tokens,
\* a lower-case letter, and a whole figure name
NamePieces ==
    { PatternPrefix, PatternSuffix,
      <<"_","f","i","x","e","d","_","g","r","i","d","X","p","n","g">>,
      <<"M","7">>, <<"M">>, <<"7">>, <<"m">>,
      FigureName(<<"Q","2">>) }

FileNames == { Concat(ps) : ps \in SeqsUpTo(NamePieces, MaxPieces) }

InitExtract ==
    /\ NoRun
    /\ pc = "call"
    /\ \E filename \in FileNames :
          call = [fn |-> "extract_subject_id_from_filename", arg |-> filename]
    /\ ret = None

\* lines 24-36
ExtractSubjectId ==
    /\ pc = "call"
    /\ call.fn = "extract_subject_id_from_filename"
    /\ ret' = Some(extract_subject_id_from_filename(call.arg))
    /\ pc' = "return"
    /\ UNCHANGED <<call, pipeline_vars>>

SpecExtract == InitExtract /\ [][ExtractSubjectId]_vars

MaxRows == 2

\* the cells of a numeric column: NaN, 0, and a second value (15.5 years, 144 months)
AgeCells == { None, Some(0), Some(930) }

MonthsCells == { None, Some(0), Some(144 * 60) }

\* the rows a table of these columns can hold
RowsOf(columns, id_int) ==
    { Row(id, age, age_months) :
        id \in (IF "ID" \notin columns THEN { << >> }
                ELSE IF id_int THEN {<<"1">>, <<"2">>} ELSE {MUH2, MUH9}),
        age \in (IF "age" \in columns THEN AgeCells ELSE {None}),
        age_months \in (IF "age_months" \in columns THEN MonthsCells ELSE {None}) }

Tables ==
    UNION { { [columns |-> columns, id_int |-> id_int, float_written |-> fw, rows |-> rows] :
                rows \in SeqsUpTo(RowsOf(columns, id_int), MaxRows) } :
            columns \in SUBSET {"ID", "age", "age_months"},
            id_int \in BOOLEAN, fw \in BOOLEAN }

InitMetadata ==
    /\ NoRun
    /\ pc = "call"
    /\ \E file \in {None} \cup { Some(t) : t \in Tables } :
          call = [fn |-> "load_subject_metadata", arg |-> file]
    /\ ret = None

\* lines 38-72
LoadSubjectMetadata ==
    /\ pc = "call"
    /\ call.fn = "load_subject_metadata"
    /\ ret' = Some(load_subject_metadata(call.arg))
    /\ pc' = "return"
    /\ UNCHANGED <<call, pipeline_vars>>

SpecMetadata == InitMetadata /\ [][LoadSubjectMetadata]_vars

MaxPixels == 12

MaxEdge == 20

\* the widths add_picture may report: those of pictures of up to MaxPixels x
\* MaxPixels pixels, and those within MaxEdge EMU of the available width
PlacedWidths ==
    { ScaledWidth(w, h, available_height) : w \in 1..MaxPixels, h \in 1..MaxPixels }
    \cup { available_width + d : d \in (-MaxEdge)..MaxEdge }

InitLayout ==
    /\ NoRun
    /\ pc = "call"
    /\ \E actual_width \in PlacedWidths : call = [fn |-> "place_picture", arg |-> actual_width]
    /\ ret = None

\* lines 285-311
PlaceOnePicture ==
    /\ pc = "call"
    /\ call.fn = "place_picture"
    /\ ret' = Some(PlacePicture(call.arg))
    /\ pc' = "return"
    /\ UNCHANGED <<call, pipeline_vars>>

SpecLayout == InitLayout /\ [][PlaceOnePicture]_vars

----------------------------------------------------------------------------
(* Claims about extract_subject_id_from_filename (SpecExtract) *)

\* t is one or more upper-case letters followed by one or more digits
IsToken(t) ==
    \E n \in 1..(Len(t) - 1) :
        /\ \A k \in 1..n : t[k] \in UpperCase
        /\ \A k \in (n + 1)..Len(t) : t[k] \in Digit

\* the occurrences of stride_change_<token>_fixed_grid.png in s, each as
\* <<position, token>>
Occurrences(s) ==
    LET fixed  == Len(PatternPrefix) + Len(PatternSuffix)
        starts == { i \in 1..Len(s) : HasAt(s, i, PatternPrefix) }
        Token(i, n) == SubSeq(s, i + Len(PatternPrefix), i + Len(PatternPrefix) + n - 1)
    IN  UNION { { <<i, Token(i, n)>> :
                    n \in { n \in 1..(Len(s) - fixed - i + 1) :
                              /\ HasAt(s, i + Len(PatternPrefix) + n, PatternSuffix)
                              /\ IsToken(Token(i, n)) } } :
                i \in starts }

\* C10: for a file name that holds an occurrence of the naming convention,
\* extract_subject_id_from_filename returns exactly the token of the leftmost
\* occurrence, unchanged; for a file name that holds none it returns None.
C10_ExtractReturnsFirstToken ==
    (pc = "return" /\ call.fn = "extract_subject_id_from_filename") =>
        LET occ == Occurrences(call.arg)
        IN  IF occ = {} THEN ret = Some(None)
            ELSE \E o \in occ : /\ \A o2 \in occ : o[1] <= o2[1]
                                /\ ret = Some(Some(o[2]))

\* a file name with two occurrences of different tokens, the first one returned
C10_Witness ==
    /\ pc = "return"
    /\ call.fn = "extract_subject_id_from_filename"
    /\ \E o1, o2 \in Occurrences(call.arg) : o1[1] < o2[1] /\ o1[2] # o2[2]
    /\ ret = Some(Some(<<"M","7">>))

----------------------------------------------------------------------------
(* Claims about load_subject_metadata (SpecMetadata) *)

\* the key a row's ID is stored under: str() of the ID as iterrows() yields it
KeyOfRow(df, k) ==
    IF df.id_int /\ ("age_months" \in df.columns \/ Dtype(df, "age") = "float64")
    THEN df.rows[k].ID \o <<".", "0">>
    ELSE df.rows[k].ID

MonthsInYears(row) == IF row.age_months = None THEN None ELSE Some(row.age_months[1] \div 12)

\* a row's age in years read from `source`: its age cell, its age_months cell
\* / 12, or the age cell when it is a number and the age_months cell / 12 otherwise
RowAgeFrom(row, source) ==
    CASE source = "age" -> row.age
      [] source = "age_months" -> MonthsInYears(row)
      [] source = "age, else age_months" ->
            IF row.age # None THEN row.age ELSE MonthsInYears(row)

\* the mapping m holds exactly the rows of df whose age, read from `source`, is a
\* number, each under its key with the age of the last such row of that key
MapsRowsBy(m, df, source) ==
    LET numeric == { k \in 1..Len(df.rows) : RowAgeFrom(df.rows[k], source) # None }
    IN  /\ DOMAIN m = { KeyOfRow(df, k) : k \in numeric }
        /\ \A k \in numeric :
              (\A j \in numeric : KeyOfRow(df, j) = KeyOfRow(df, k) => j <= k)
                  => m[KeyOfRow(df, k)] = RowAgeFrom(df.rows[k], source)[1]

MetadataReturned == pc = "return" /\ call.fn = "load_subject_metadata" /\ call.arg # None

\* the rows [{ID:1, age_months:144}, {ID:2, age:15.5}] as one table
ExampleTable ==
    [columns |-> {"ID", "age", "age_months"}, id_int |-> TRUE, float_written |-> FALSE,
     rows |-> << Row(<<"1">>, None, Some(144 * 60)), Row(<<"2">>, Some(930), None) >>]

C5_AsClaimed ==
    (MetadataReturned /\ "ID" \in call.arg[1].columns) =>
        LET df == call.arg[1]
            m  == ret[1].age_mapping
        IN  /\ "age" \in df.columns => MapsRowsBy(m, df, "age")
            /\ ("age" \notin df.columns /\ "age_months" \in df.columns)
                  => MapsRowsBy(m, df, "age_months")
            /\ df.columns \cap {"age", "age_months"} = {}
                  => DOMAIN m = {} /\ "no_age_column" \in ret[1].log

\* C5 amended: the ages come from age_months / 12 whenever the table has an
\* age_months column (also when it has an age column too), from the age column
\* only when it has no age_months column, and with neither column the function
\* returns the empty mapping and prints the warning.
C5_MonthsColumnFirst ==
    MetadataReturned =>
        LET df == call.arg[1]
            m  == ret[1].age_mapping
        IN  /\ ("ID" \in df.columns /\ "age_months" \in df.columns)
                  => MapsRowsBy(m, df, "age_months")
            /\ ("ID" \in df.columns /\ "age_months" \notin df.columns /\ "age" \in df.columns)
                  => MapsRowsBy(m, df, "age")
            /\ df.columns \cap {"age", "age_months"} = {}
                  => DOMAIN m = {} /\ ret[1].log = {"no_age_column"}

\* a table with both columns and a row whose two cells give different ages: the
\* months decide
C5_Witness ==
    /\ MetadataReturned
    /\ {"ID", "age", "age_months"} \subseteq call.arg[1].columns
    /\ \E k \in 1..Len(call.arg[1].rows) :
          /\ call.arg[1].rows[k].age = Some(930)
          /\ call.arg[1].rows[k].age_months = Some(144 * 60)
          /\ KeyOfRow(call.arg[1], k) \in DOMAIN ret[1].age_mapping
          /\ ret[1].age_mapping[KeyOfRow(call.arg[1], k)] = 12 * 60

----------------------------------------------------------------------------
(* Claims about the picture layout (SpecLayout) *)

\* C8: the picture is placed with height = slide height - 1.2in - 0.3in and
\* top = 1.2in; with available width = slide width - 1.0in, a picture narrower
\* than it gets left = 0.5in + (available width - w) / 2 truncated to an integer
\* (its centre within 1 EMU of the band's centre, the picture inside the band),
\* any other picture keeps left = 0.5in; width, height and left are never negative.
\* In EMU: 1in = 914400, slide 12191695 x 6858000.
C8_HeightLockedCenteredLayout ==
    (pc = "return" /\ call.fn = "place_picture") =>
        LET w      == call.arg
            p      == ret[1]
            band   == 12191695 - 914400
            margin == 457200
        IN  /\ p.height = 6858000 - 1097280 - 274320
            /\ p.top = 1097280
            /\ p.width = w
            /\ w < band =>
                  /\ 2 * (p.left - margin) \in { band - w - 1, band - w }
                  /\ (2 * p.left + w) - (2 * margin + band) \in (-2)..2
                  /\ p.left >= margin
                  /\ p.left + w <= margin + band
            /\ w >= band => p.left = margin
            /\ p.width >= 0 /\ p.height >= 0 /\ p.left >= 0

\* a narrower picture whose free width is odd, so that the half is truncated
C8_Witness ==
    /\ pc = "return"
    /\ call.fn = "place_picture"
    /\ call.arg = 12191695 - 914400 - 3
    /\ ret[1].left = 457201

----------------------------------------------------------------------------
(* Claims about create_powerpoint_from_images (Spec) *)

\* the sort of line 229 is behind: image_data is the sorted catalog
Sorted == pc \in {"title", "slides"} \/ (pc = "done" /\ image_data # << >>)

SubjectIds(data) == [k \in 1..Len(data) |-> data[k].subject_id]

Ages(data) == [k \in 1..Len(data) |-> data[k].age]

\* C1: after the catalog is built and sorted, every record with an age precedes
\* every record without one, the records with an age are in ascending order of
\* age, records of equal age (or both without) are in ascending lexicographic
\* order of subject id, and sorting the sorted list again changes nothing.
C1_CatalogSortedByAgeThenId ==
    Sorted =>
        /\ \A a, b \in 1..Len(image_data) : a < b =>
              LET x == image_data[a]
                  y == image_data[b]
              IN  /\ x.age = None => y.age = None
                  /\ (x.age # None /\ y.age # None) => x.age[1] <= y.age[1]
                  /\ x.age = y.age => ~StrLess(y.subject_id, x.subject_id)
        /\ pc = "title" => SortedImageData(image_data) = image_data

\* three subjects of one age, in the order "MUH10" < "MUH2" < "MUH9"
C1_Witness ==
    /\ pc = "title"
    /\ SubjectIds(image_data) = <<MUH10, MUH2, MUH9>>
    /\ Ages(image_data) = <<Some(600), Some(600), Some(600)>>

\* C2: a run with n >= 1 present records assembles exactly 1 + n slides, the
\* title slide first, the k-th image slide made from the k-th record of the sorted
\* catalog; in the assembled document every slide's record is of a file on disk
\* whose name matches the convention, so a missing or skipped input has no slide.
C2_OneSlidePerPresentRecord ==
    /\ pc = "slides" => Len(slides) = idx
    /\ (pc = "done" /\ image_data # << >>) => Len(slides) = 1 + Len(image_data)
    /\ (pc = "done" /\ image_data = << >>) => slides = << >>
    /\ \A k \in 1..Len(slides) :
          IF k = 1 THEN slides[k].kind = "title"
          ELSE /\ slides[k].kind = "image"
               /\ slides[k].path = image_data[k - 1].path
               /\ slides[k].title.subject_id = image_data[k - 1].subject_id
               /\ slides[k].title.slide = k - 1
               /\ pc = "done" =>
                     /\ Exists(slides[k].path, files, os_name)
                     /\ extract_subject_id_from_filename(Basename(slides[k].path, os_name))
                           = Some(slides[k].title.subject_id)

\* the ages {null, 10.2, 8.4}: four slides, in the order 8.4, 10.2, no age
C2_Witness ==
    /\ pc = "done"
    /\ Len(slides) = 4
    /\ Ages(image_data) = <<Some(504), Some(612), None>>
    /\ [k \in 1..3 |-> slides[k + 1].title.age] = <<Some(84), Some(102), None>>

\* the path the loop is about to take has a drive prefix on a platform without
\* drives, a file name of the convention, and no candidate location on disk
HeadIsUnresolvable ==
    /\ pc = "catalog"
    /\ image_paths # << >>
    /\ LET normalized == NormalizeSeparators(Head(image_paths), os_name)
           filename   == Basename(normalized, os_name)
       IN  /\ StartsWith(normalized, DrivePrefix)
           /\ os_name # "nt"
           /\ extract_subject_id_from_filename(filename) # None
           /\ \A k \in 1..4 : ~Exists(PossiblePaths(filename)[k], files, os_name)

\* C3 as claimed: an input path with a foreign drive prefix none of whose candidate
\* locations exists is recorded in `missing`, not in `present`, and the loop goes
\* on with the next path.
C3_AsClaimed ==
    [][ HeadIsUnresolvable =>
          /\ image_paths' = Tail(image_paths)
          /\ image_data' = image_data
          /\ Len(missing_images') = Len(missing_images) + 1
          /\ missing_images'[Len(missing_images')].filename
                = Basename(NormalizeSeparators(Head(image_paths), os_name), os_name)
      ]_vars

\* C6 as claimed: `present` holds at most one record per distinct resolved path.
C6_AsClaimed ==
    \A a, b \in 1..Len(image_data) : a # b => image_data[a].path # image_data[b].path

\* C7: whichever pictures cannot be placed, each of their slides exists and holds
\* the text placeholder naming the file instead of a picture, the slides of the
\* later records follow in order, the slide count ends at 1 + n, prs.save is
\* called once, and the output filename is returned unless the save itself raises.
C7_FailedPictureIsIsolated ==
    /\ \A k \in 2..Len(slides) :
          /\ slides[k].path = image_data[k - 1].path
          /\ slides[k].picture = None
                => slides[k].placeholder = Some(image_data[k - 1].filename)
          /\ slides[k].picture # None => slides[k].placeholder = None
    /\ (pc = "slides" /\ "error_adding_image" \in log) => result = None
    /\ (pc = "done" /\ image_data # << >>) =>
          /\ Len(slides) = 1 + Len(image_data)
          /\ save_calls = 1
          /\ "error_saving" \notin log => result = Some(output_filename)

\* three records of which the first and the last could not be placed; the run
\* saved and returned the output filename
C7_Witness ==
    /\ pc = "done"
    /\ Len(slides) = 4
    /\ slides[2].placeholder # None
    /\ slides[3].picture # None
    /\ slides[4].placeholder # None
    /\ result = Some(output_filename)

\* C9 as claimed: without a metadata file (no path given, or a path of no file) the
\* run assembles 1 + n slides, no record and no header has an age, the slides are
\* in ascending order of subject id, and a warning about the metadata is reported.
C9_AsClaimed ==
    (pc = "done" /\ metadata_file = None /\ image_data # << >>) =>
        /\ Len(slides) = 1 + Len(image_data)
        /\ \A k \in 1..Len(image_data) :
              image_data[k].age = None /\ slides[k + 1].title.age = None
        /\ \A a, b \in 1..Len(image_data) : a < b =>
              ~StrLess(slides[b + 1].title.subject_id, slides[a + 1].title.subject_id)
        /\ log \cap {"metadata_not_found", "metadata_error", "no_age_column"} # {}

\* the path the loop is about to take has a file name that does not match the
\* naming convention
HeadIsUnmatched ==
    /\ pc = "catalog"
    /\ image_paths # << >>
    /\ extract_subject_id_from_filename(
           Basename(NormalizeSeparators(Head(image_paths), os_name), os_name)) = None

\* a record of the catalog: its subject id is upper-case letters followed by
\* digits, and its filename is the base name of its path
WellFormedRecord(r) ==
    /\ IsToken(r.subject_id)
    /\ r.filename = Basename(r.path, os_name)

\* C11: an input path whose file name does not match the naming convention is
\* added to neither image_data nor missing_images and the loop goes on with the
\* next path; every record of image_data and of missing_images has a non-empty
\* subject id of the form letters-then-digits and a filename that is the base
\* name of its path.
C11_UnmatchedNameIsSkipped ==
    /\ [](/\ \A k \in 1..Len(image_data) : WellFormedRecord(image_data[k])
          /\ \A k \in 1..Len(missing_images) : WellFormedRecord(missing_images[k]))
    /\ [][ HeadIsUnmatched =>
             /\ image_data' = image_data
             /\ missing_images' = missing_images
             /\ image_paths' = Tail(image_paths)
             /\ pc' = "catalog"
             /\ result' = None
         ]_vars

\* a run that skipped a name outside the convention, took the two other paths
\* (one of a file on disk, one of none) and went on to save the presentation
C11_Witness ==
    /\ pc = "done"
    /\ "could_not_extract_id" \in log
    /\ Len(image_data) = 1
    /\ Len(missing_images) = 1
    /\ result = Some(output_filename)

\* C12: the run ends with the empty string exactly when the catalog is empty (no
\* slide was added and prs.save was not called) or when prs.save raised; every
\* other run, whatever was missing, skipped, without an age or not placeable,
\* calls prs.save once and returns the output filename.  Nothing is returned
\* and nothing saved before the run has ended.
C12_AbortsOnlyOnEmptyCatalogOrFailedSave ==
    /\ pc # "done" => (result = None /\ save_calls = 0)
    /\ pc = "done" =>
          /\ image_data = << >> =>
                /\ result = Some("")
                /\ slides = << >>
                /\ save_calls = 0
                /\ "no_valid_images" \in log
          /\ image_data # << >> =>
                /\ save_calls = 1
                /\ result = IF "error_saving" \in log THEN Some("")
                                                      ELSE Some(output_filename)
          /\ result = Some("") <=> (image_data = << >> \/ "error_saving" \in log)

\* a run with one path of no file, one name outside the convention and one
\* record, which has no age and whose picture could not be placed: it saved
\* and returned the output filename
C12_Witness ==
    /\ pc = "done"
    /\ missing_images # << >>
    /\ "could_not_extract_id" \in log
    /\ "error_adding_image" \in log
    /\ Len(image_data) = 1
    /\ image_data[1].age = None
    /\ save_calls = 1
    /\ result = Some(output_filename)

----------------------------------------------------------------------------
(* Claims about one figure stored at several locations (SpecLocations) *)

\* the sequence s taken in the order p, a permutation of its indices
Reordered(s, p) == [k \in 1..Len(s) |-> s[p[k]]]

\* C13 as claimed: the sorted catalog does not depend on the order of the input.
\* Each path is processed on its own, so the input in another order gives the
\* records of the unsorted catalog in that other order; the claim is that the
\* sort of line 229 makes the one sorted catalog of every such order.
C13_AsClaimed ==
    pc = "title" =>
        \A p \in Permutations(1..Len(image_data)) :
            SortedImageData(Reordered(image_data, p)) = image_data

\* C14 as claimed, for the path the loop takes in this step: a path of the naming
\* convention that exists where the separator-normalized path says is recorded
\* in image_data with that path; the fallback search is used only for a path with
\* a drive prefix on a platform without drives that does not exist there, and
\* then the first existing candidate is the record's path; any other path that
\* does not exist is recorded with the normalized path.
C14_AsClaimed ==
    [][ (pc = "catalog" /\ image_paths # << >>) =>
          LET normalized == NormalizeSeparators(Head(image_paths), os_name)
              filename   == Basename(normalized, os_name)
              foreign    == StartsWith(normalized, DrivePrefix) /\ os_name # "nt"
              there      == Exists(normalized, files, os_name)
              first      == FirstExisting(PossiblePaths(filename), 1, files, os_name)
          IN  extract_subject_id_from_filename(filename) # None =>
                /\ there =>
                      /\ Len(image_data') = Len(image_data) + 1
                      /\ image_data'[Len(image_data')].path = normalized
                /\ (foreign /\ ~there /\ first # None) =>
                      /\ Len(image_data') = Len(image_data) + 1
                      /\ image_data'[Len(image_data')].path = first[1]
                /\ (~foreign /\ ~there) =>
                      /\ Len(missing_images') = Len(missing_images) + 1
                      /\ missing_images'[Len(missing_images')].path = normalized
      ]_vars

====
